---- MODULE Spec2Model ----
(***************************************************************************)
(* rizzyscope: the target-acquisition and channel-lock state machine of    *)
(* the terminal dashboard (Model.Update of the target-list variant) and    *)
(* the Kismet client functions it calls (FindValidTarget, FetchDeviceInfo, *)
(* lockChannel, hopChannel, GetUUIDForInterface).                          *)
(*                                                                         *)
(* Pointers: m.targets holds *TargetItem, the list widget is refilled with *)
(* the same pointers on every render, and FindValidTarget returns one of   *)
(* them ("newTarget := target" copies the pointer).  A target is therefore *)
(* its index in targets; lockedTarget = 0 is nil; a write through          *)
(* m.lockedTarget or selectedItem is a write to targets[i].                *)
(*                                                                         *)
(* Time: seconds.  lastReceived is kept as sinceReceived, the value of     *)
(* time.Since(m.lastReceived), saturated just above timeout (the code only *)
(* compares it with timeout).                                              *)
(*                                                                         *)
(* History: the handler only appends to m.rssiData and trims it; nothing   *)
(* of the acquisition state depends on the buffer.  Spec follows the       *)
(* acquisition state and records in last.sample what each event appends;   *)
(* SpecHistory follows the buffer itself over a long run of samples.       *)
(*                                                                         *)
(* Credentials: every detector request is built by CreateRequest from the  *)
(* cached credentials.  Spec is a session whose configuration holds both;  *)
(* SpecCreds follows the cache over a run of requests for every            *)
(* configuration.                                                          *)
(*                                                                         *)
(* Radio: the channel commands act on the detector's data source, which    *)
(* the program never reads back.  Spec records the commands of each event  *)
(* in calls; SpecRadio also follows the state they leave the data source   *)
(* in.                                                                     *)
(***************************************************************************)
EXTENDS Integers, Sequences, FiniteSets, TLC

VARIABLES
    targets,        \* m.targets: the registry, in registry order
    lockedTarget,   \* m.lockedTarget: index into targets, 0 = nil
    channelLocked,  \* m.channelLocked
    channel,        \* m.channel
    rssi,           \* m.rssi
    sinceReceived,  \* time.Since(m.lastReceived), saturated at timeout + 1
    kismet,         \* m.kismet process: "running" or "killed"
    quit,           \* tea.Quit was returned: the program has ended
    calls,          \* channel commands sent to the detector by the last handled event
    last,           \* what the last handled event was and what it saw
    rssiData,       \* m.rssiData: the history buffer (followed by SpecHistory)
    samples,        \* how many samples were appended to rssiData so far
    creds,          \* the configured credentials, the package-level cache
                    \* and what the requests did with them (followed by SpecCreds)
    radio,          \* the detector's data source for m.iface[0]: hopping, or
                    \* pinned to the channel of the last set_channel it accepted
    lockedDeviceInfo,   \* m.lockedDeviceInfo: NoDeviceInfo (nil) or the snapshot of
                        \* the last sample, kept as its number of associated clients
    clientScrollOffset, \* m.clientScrollOffset (followed by SpecView)
    focusOnClients,     \* m.focusOnClients (followed by SpecView)
    ticks,              \* tick commands outstanding: returned by Init or Update and
                        \* not delivered as a tickMsg yet (followed by SpecView)
    fetched             \* the last device record FetchDeviceInfo matched and the
                        \* DeviceInfo it returned for it (followed by SpecInfo)

vars == <<targets, lockedTarget, channelLocked, channel, rssi, sinceReceived,
          kismet, quit, calls, last, rssiData, samples, creds, radio,
          lockedDeviceInfo, clientScrollOffset, focusOnClients, ticks,
          fetched>>

\* The client list of the target pane: its scroll offset and focus.
scroll == <<clientScrollOffset, focusOnClients>>

\* The history buffer and its sample count.
history == <<rssiData, samples>>

(***************************************************************************)
(* Program constants                                                       *)
(***************************************************************************)
MinRSSI == -120
MaxRSSI == -20
timeout == 5
decayRate == 10
HistoryCap == 50    \* "Keep only the last 50 data points"
MAC == 1
SSID == 2

(***************************************************************************)
(* Bounds of the model                                                     *)
(***************************************************************************)
MaxTargets == 2     \* longest registry
MaxDevices == 2     \* most device records in one discovery response
MaxResolved == 1    \* most device records in one resolve response

\* Hardware addresses and broadcast names known to the model.
MACs == {"aa:01", "aa:02"}
SSIDs == {"net1"}

Min(a, b) == IF a < b THEN a ELSE b
Max(a, b) == IF a > b THEN a ELSE b

(***************************************************************************)
(* Detector responses.  A device record is a JSON object; has is the set   *)
(* of keys it carries with the type the client asserts.  Every record      *)
(* carries base.macaddr (the detector keys its devices by address).  The   *)
(* discovery request asks for address, channel and name, the resolve       *)
(* request for address, channel and signal (the other fields it asks for   *)
(* are only displayed).                                                    *)
(***************************************************************************)
Device(m, c, s, r, h) == [mac |-> m, channel |-> c, ssid |-> s, rssi |-> r, has |-> h]

PollRecords ==
    { Device("aa:01", "1", "", 0, {"mac", "channel"}),
      Device("aa:02", "6", "net1", 0, {"mac", "channel", "ssid"}),
      Device("aa:01", "6", "net1", 0, {"mac", "channel", "ssid"}),
      Device("aa:02", "6", "aa:01", 0, {"mac", "channel", "ssid"}) }

ResolveRecords ==
    { Device("aa:01", "1", "", -40,  {"mac", "channel", "rssi"}),
      Device("aa:02", "6", "", -10, {"mac", "channel", "rssi"}),
      Device("aa:01", "6", "", -115, {"mac", "channel", "rssi"}),
      Device("aa:02", "", "", -130, {"mac", "rssi"}) }

\* The lists of at most n distinct records of a set.
RECURSIVE DeviceLists(_, _)
DeviceLists(records, n) ==
    IF n = 0 THEN {<<>>}
    ELSE LET shorter == DeviceLists(records, n - 1)
         IN shorter \cup { Append(l, d) : l \in { s \in shorter : Len(s) = n - 1 },
                                          d \in records }

\* The detector keys its devices by address: a response holds at most one
\* record per address.
DistinctMacs(l) == \A i, j \in 1..Len(l) : i # j => l[i].mac # l[j].mac

\* An HTTP exchange: the transport failed, the status was not 200, the body
\* did not decode, or a list of device records came back.
ResponsesOf(records, n) ==
    { [kind |-> k, devices |-> <<>>] : k \in {"transport", "status", "decode"} }
    \cup { [kind |-> "ok", devices |-> l] :
           l \in { x \in DeviceLists(records, n) : DistinctMacs(x) } }

PollResponses == ResponsesOf(PollRecords, MaxDevices)
ResolveResponses == ResponsesOf(ResolveRecords, MaxResolved)

\* device["key"].(string) and device["RSSI"].(float64): the value and ok.
Has(device, key) == key \in device.has
Str(device, key) == IF Has(device, key) THEN device[key] ELSE ""

(***************************************************************************)
(* target.go                                                               *)
(***************************************************************************)
TargetItem(v, t) == [Value |-> v, TType |-> t, OriginalValue |-> "", Ignored |-> FALSE]

\* Mutant: no target ever counts as ignored.
IsIgnoredNever(t) == FALSE

IsIgnored(t) == t.Ignored

ToggleIgnore(t) == [t EXCEPT !.Ignored = ~t.Ignored]

(***************************************************************************)
(* kismet.go: FindValidTarget.  The result carries the registry as well,   *)
(* because the SSID branch writes through the target pointer before it     *)
(* returns.                                                                *)
(***************************************************************************)
NoTarget(ts) == [value |-> "", channel |-> "", target |-> 0, targets |-> ts]

\* The body of the inner loop for one target and one device: whether the
\* function returns here, and what it returns.
MatchDevice(ts, i, device) ==
    LET target == ts[i]
        deviceMac == Str(device, "mac")
        deviceChannel == Str(device, "channel")
    IN IF target.TType = MAC
       THEN IF deviceMac = target.Value
            THEN [hit |-> TRUE,
                  ret |-> [value |-> target.Value, channel |-> deviceChannel,
                           target |-> i, targets |-> ts]]
            ELSE [hit |-> FALSE, ret |-> NoTarget(ts)]
       ELSE IF target.TType = SSID /\ Has(device, "ssid") /\ device.ssid = target.Value
               /\ Has(device, "channel")
            THEN [hit |-> TRUE,
                  ret |-> [value |-> deviceMac, channel |-> device.channel,
                           target |-> i,
                           targets |-> [ts EXCEPT ![i].OriginalValue = target.Value,
                                                  ![i].TType = SSID,
                                                  ![i].Value = deviceMac]]]
            ELSE [hit |-> FALSE, ret |-> NoTarget(ts)]

\* for _, device := range devices, from position j on.
RECURSIVE ScanDevices(_, _, _, _)
ScanDevices(ts, i, devices, j) ==
    IF j > Len(devices) THEN [hit |-> FALSE, ret |-> NoTarget(ts)]
    ELSE LET m == MatchDevice(ts, i, devices[j])
         IN IF m.hit THEN m ELSE ScanDevices(ts, i, devices, j + 1)

\* for _, target := range targets, from position i on.
RECURSIVE ScanTargets(_, _, _)
ScanTargets(ts, devices, i) ==
    IF i > Len(ts) THEN NoTarget(ts)
    ELSE IF IsIgnored(ts[i]) THEN ScanTargets(ts, devices, i + 1)
    ELSE LET m == ScanDevices(ts, i, devices, 1)
         IN IF m.hit THEN m.ret ELSE ScanTargets(ts, devices, i + 1)

FindValidTarget(ts, resp) ==
    IF resp.kind # "ok" THEN NoTarget(ts)
    ELSE ScanTargets(ts, resp.devices, 1)

(***************************************************************************)
(* kismet.go: FetchDeviceInfo.  err is "nil", "notfound" (errDeviceNotFound)*)
(* or "error"; info is meaningful when found.                              *)
(***************************************************************************)
NoInfo(e) == [found |-> FALSE, err |-> e, RSSI |-> MinRSSI, Channel |-> ""]

RECURSIVE FirstByMac(_, _, _)
FirstByMac(devices, mac, j) ==
    IF j > Len(devices) THEN 0
    ELSE IF Has(devices[j], "mac") /\ devices[j].mac = mac THEN j
    ELSE FirstByMac(devices, mac, j + 1)

DeviceInfoOf(device) ==
    [found |-> TRUE, err |-> "nil",
     RSSI |-> IF Has(device, "rssi") THEN device.rssi ELSE MinRSSI,
     Channel |-> IF Has(device, "channel") THEN device.channel ELSE ""]

\* Faulty variant: a body that does not decode is returned as an empty
\* device record instead of an error.
FetchDeviceInfoEmptyOnDecode(mac, resp) ==
    CASE resp.kind = "transport" -> NoInfo("nil")
      [] resp.kind = "decode" -> [found |-> TRUE, err |-> "nil", RSSI |-> MinRSSI, Channel |-> ""]
      [] resp.kind = "status" -> NoInfo("notfound")
      [] OTHER -> LET j == FirstByMac(resp.devices, mac, 1)
                  IN IF j = 0 THEN NoInfo("notfound") ELSE DeviceInfoOf(resp.devices[j])

FetchDeviceInfo(mac, resp) ==
    CASE resp.kind = "transport" -> NoInfo("nil")
      [] resp.kind = "decode" -> NoInfo("error")
      [] resp.kind = "status" -> NoInfo("notfound")
      [] OTHER -> LET j == FirstByMac(resp.devices, mac, 1)
                  IN IF j = 0 THEN NoInfo("notfound") ELSE DeviceInfoOf(resp.devices[j])

(***************************************************************************)
(* kismet.go: the credentials.  creds holds the configuration              *)
(* (credentials.user, credentials.password), the package variables         *)
(* cachedUser, cachedPassword, credentialsErr and whether once has run,    *)
(* and, to observe the requests: how often getCredentials ran, how many    *)
(* requests were asked for, how many of them reached client.Do, and the    *)
(* function, error and credentials of the last one.                        *)
(***************************************************************************)
Unfetched(user, password) ==
    [cfgUser |-> user, cfgPassword |-> password,
     done |-> FALSE, cachedUser |-> "", cachedPassword |-> "", credentialsErr |-> FALSE,
     fetches |-> 0, requests |-> 0, sent |-> 0,
     lastOp |-> "", lastErr |-> FALSE, lastUser |-> "", lastPassword |-> ""]

getCredentials(c) ==
    IF c.cfgUser = "" \/ c.cfgPassword = ""
    THEN [user |-> "", password |-> "", err |-> TRUE]
    ELSE [user |-> c.cfgUser, password |-> c.cfgPassword, err |-> FALSE]

\* The body handed to once.Do.
FetchCredentials(c) ==
    LET got == getCredentials(c)
    IN [c EXCEPT !.done = TRUE, !.cachedUser = got.user, !.cachedPassword = got.password,
                 !.credentialsErr = got.err, !.fetches = @ + 1]

\* Faulty variant: the configuration is read on every call.
getCachedCredentialsUncached(c) ==
    FetchCredentials(c)

\* once.Do runs its body on the first call only.
getCachedCredentials(c) ==
    IF c.done THEN c ELSE FetchCredentials(c)

\* CreateRequest for one of the client functions: the credentials error is
\* returned before http.NewRequest; otherwise the request carries the cached
\* user and password and the caller hands it to client.Do.
CreateRequest(c, op) ==
    LET c1 == getCachedCredentials(c)
    IN [c1 EXCEPT !.requests = @ + 1,
                  !.sent = IF c1.credentialsErr THEN @ ELSE @ + 1,
                  !.lastOp = op,
                  !.lastErr = c1.credentialsErr,
                  !.lastUser = IF c1.credentialsErr THEN "" ELSE c1.cachedUser,
                  !.lastPassword = IF c1.credentialsErr THEN "" ELSE c1.cachedPassword]

(***************************************************************************)
(* The detector's data source: kismet starts it hopping; set_channel.cmd   *)
(* pins it to the channel of the request and set_hop.cmd puts it back to   *)
(* hopping, each when the detector accepts the command (status 200).       *)
(***************************************************************************)
\* m.lockedDeviceInfo: nil, or the *DeviceInfo of the last sample.  The
\* handlers read back one thing of it, len(AssociatedClients).
NoDeviceInfo == [held |-> FALSE, clients |-> 0]
Snapshot(n) == [held |-> TRUE, clients |-> n]

\* Faulty variant: the ignore key leaves the snapshot of the released target.
InfoKeptOnIgnore(info, ev, n) ==
    IF ev.kind = "tick" /\ ev.resolve = "ok" THEN Snapshot(n)
    ELSE IF ev.kind = "enter" THEN NoDeviceInfo
    ELSE info

\* What an event leaves in m.lockedDeviceInfo: a tick that got a device
\* record stores it (n associated clients), enter clears it, i clears it
\* when a target was held; ev is the record of the event.
InfoAfter(info, ev, n) ==
    IF ev.kind = "tick" /\ ev.resolve = "ok" THEN Snapshot(n)
    ELSE IF ev.kind = "enter" \/ (ev.kind = "ignore" /\ ev.from # 0) THEN NoDeviceInfo
    ELSE info

Hopping == [mode |-> "hop", channel |-> ""]
Pinned(ch) == [mode |-> "lock", channel |-> ch]

(***************************************************************************)
(* main: the registry is the configured addresses followed by the          *)
(* configured names (main does not remove a value configured twice);       *)
(* nothing is locked and the signal is at the minimum.                     *)
(***************************************************************************)
Registries ==
    UNION { { [i \in 1..(k + s) |-> IF i <= k THEN TargetItem(ms[i], MAC)
                                              ELSE TargetItem(ss[i - k], SSID)] :
              ms \in [1..k -> MACs],
              ss \in [1..s -> SSIDs] } :
            <<k, s>> \in { x \in (0..MaxTargets) \X (0..MaxTargets) :
                            x[1] + x[2] >= 1 /\ x[1] + x[2] <= MaxTargets } }

\* The record of a handled event: its kind, the lockedTarget and channelLocked
\* it started from, the list cursor (enter), and for a tick whether discovery
\* set lockedTarget, the devices (address, name, channel) of the discovery response,
\* how the resolve call ended, whether the decay section changed rssi,
\* the samples the event appended to rssiData, which of its HTTP calls
\* ("poll", "resolve", "lock") returned an error, and the percent the event
\* handed to the progress bar (a tick hands one; see PercentOf).
Event(kind, from, fromLocked) ==
    [kind |-> kind, from |-> from, fromLocked |-> fromLocked, sel |-> 0,
     discovered |-> FALSE, seen |-> {}, resolve |-> "none", decayed |-> FALSE,
     sample |-> <<>>, failed |-> {}, percent |-> <<>>]

(***************************************************************************)
(* Commands. Update returns a command with the model; the runtime runs it  *)
(* and delivers its message later. tickCmd is tea.Tick(interval, ...)       *)
(* delivering a tickMsg; "frame" is the progress bar's animation frame      *)
(* (a progress.FrameMsg), "list" a command of the target list, "quit"      *)
(* tea.Quit.                                                               *)
(***************************************************************************)
tickCmd == "tick"

IsTickCmd(c) == c = tickCmd

\* Model.Init
InitCmd == <<tickCmd>>

\* FetchDeviceInfo has not matched a record yet.
NoFetch == [done |-> FALSE, record |-> <<>>, info |-> <<>>]

\* Faulty variant: the tick handler returns the progress command only.
ReturnedNoTick(ev, more) ==
    IF ev.kind \in {"fatal", "quit"} THEN <<"quit">>
    ELSE IF ev.kind = "tick" THEN <<"frame">>
    ELSE IF ev.kind = "frame" /\ more THEN <<"frame">>
    ELSE IF ev.kind = "nav" /\ more THEN <<"list">>
    ELSE <<>>

\* The command Update returns for a handled event. more: whether the bubbles
\* component the event was passed to (progress bar, target list) returned a
\* command of its own.
Returned(ev, more) ==
    IF ev.kind \in {"fatal", "quit"} THEN <<"quit">>
    ELSE IF ev.kind = "tick" THEN <<tickCmd, "frame">>
    ELSE IF ev.kind = "frame" /\ more THEN <<"frame">>
    ELSE IF ev.kind = "nav" /\ more THEN <<"list">>
    ELSE <<>>

\* The tick commands outstanding after an event that delivered `delivered`
\* tick messages and returned cmd.
TicksAfter(n, delivered, cmd) == n - delivered + Len(SelectSeq(cmd, IsTickCmd))

Init ==
    /\ targets \in Registries
    /\ lockedTarget = 0
    /\ channelLocked = FALSE
    /\ channel = ""
    /\ rssi = MinRSSI
    /\ sinceReceived = 0
    /\ kismet = "running"
    /\ quit = FALSE
    /\ calls = <<>>
    /\ last = Event("init", 0, FALSE)
    /\ rssiData = <<>>
    /\ samples = 0
    /\ creds = Unfetched("user", "secret")
    /\ radio = Hopping
    /\ lockedDeviceInfo = NoDeviceInfo
    /\ clientScrollOffset = 0
    /\ focusOnClients = FALSE
    /\ ticks = Len(SelectSeq(InitCmd, IsTickCmd))
    /\ fetched = NoFetch

(***************************************************************************)
(* Model.Update                                                            *)
(***************************************************************************)

\* Faulty variant: the program exits and leaves the detector process running
\* (as os.Exit(1) did in the earlier handler).
UuidFailedLeavesDetector ==
    /\ quit' = TRUE
    /\ calls' = <<>>
    /\ last' = Event("fatal", lockedTarget, channelLocked)
    /\ UNCHANGED <<targets, lockedTarget, channelLocked, channel, rssi, sinceReceived,
                   kismet>>

\* GetUUIDForInterface failed: kill the detector process and return tea.Quit.
UuidFailed ==
    /\ kismet' = IF kismet # "none" THEN "killed" ELSE kismet
    /\ quit' = TRUE
    /\ calls' = <<>>
    /\ last' = Event("fatal", lockedTarget, channelLocked)
    /\ UNCHANGED <<targets, lockedTarget, channelLocked, channel, rssi, sinceReceived>>

\* Faulty variant: the quit key ends the program and leaves the detector
\* process running.
QuitKeyLeavesDetector ==
    /\ ~quit
    /\ \E uuidOk \in BOOLEAN :
         IF ~uuidOk THEN UuidFailed
         ELSE /\ quit' = TRUE
              /\ calls' = <<>>
              /\ last' = Event("quit", lockedTarget, channelLocked)
              /\ UNCHANGED <<targets, lockedTarget, channelLocked, channel, rssi,
                             sinceReceived, kismet>>

\* case "ctrl+c", "q"
QuitKey ==
    /\ ~quit
    /\ \E uuidOk \in BOOLEAN :
         IF ~uuidOk THEN UuidFailed
         ELSE /\ kismet' = IF kismet # "none" THEN "killed" ELSE kismet
              /\ quit' = TRUE
              /\ calls' = <<>>
              /\ last' = Event("quit", lockedTarget, channelLocked)
              /\ UNCHANGED <<targets, lockedTarget, channelLocked, channel, rssi,
                             sinceReceived>>

\* The registry update loops of "enter" and "i": the first target of the
\* registry that compares equal to the locked one gets the flag.
SameTarget(locked, t) ==
    \/ locked.TType = MAC /\ t.Value = locked.Value
    \/ locked.TType = SSID /\ t.OriginalValue = locked.OriginalValue

RECURSIVE FirstSame(_, _, _)
FirstSame(ts, locked, i) ==
    IF i > Len(ts) THEN 0
    ELSE IF SameTarget(locked, ts[i]) THEN i
    ELSE FirstSame(ts, locked, i + 1)

SetIgnoredOfSame(ts, lt, flag) ==
    LET i == FirstSame(ts, ts[lt], 1)
    IN IF i = 0 THEN ts ELSE [ts EXCEPT ![i].Ignored = flag]

\* Faulty variant: the release is sent as a lock command.
HopCallAsLock(ok) == [op |-> "lock", channel |-> "", ok |-> ok]

HopCall(ok) == [op |-> "hop", channel |-> "", ok |-> ok]
\* Faulty variant: the lock command does not carry the channel.
LockCallNoChannel(ch, ok) == [op |-> "lock", channel |-> "", ok |-> ok]

LockCall(ch, ok) == [op |-> "lock", channel |-> ch, ok |-> ok]

\* Mutant: auto-ignore and release whenever a target is held.
SwitchingFromAnyTarget(lt, locked) == lt # 0

\* "enter": the condition under which the current target is auto-ignored
\* and the channel released.
SwitchingFromLocked(lt, locked) == lt # 0 /\ locked

\* Faulty variant: the select forgets the target but leaves channelLocked
\* as it was.
EnterKeepsChannelLocked ==
    /\ lockedTarget' = 0
    /\ UNCHANGED channelLocked
    /\ rssi' = MinRSSI
    /\ channel' = ""
    /\ sinceReceived' = 0

\* Mutant: the select keeps the target and its lock.
EnterKeepsTarget ==
    /\ UNCHANGED <<lockedTarget, channelLocked>>
    /\ rssi' = MinRSSI
    /\ channel' = ""
    /\ sinceReceived' = 0

\* "enter": what is left of the acquisition state after the key.
EnterReset ==
    /\ lockedTarget' = 0
    /\ channelLocked' = FALSE
    /\ rssi' = MinRSSI
    /\ channel' = ""
    /\ sinceReceived' = 0

\* case "enter", with the list cursor on targets[sel]
Enter(sel) ==
    /\ ~quit
    /\ \E uuidOk \in BOOLEAN :
         IF ~uuidOk THEN UuidFailed
         ELSE LET unignored == IF IsIgnored(targets[sel])
                               THEN [targets EXCEPT ![sel] = ToggleIgnore(@)]
                               ELSE targets
                  auto == SwitchingFromLocked(lockedTarget, channelLocked)
                  toggled == [unignored EXCEPT ![lockedTarget] = ToggleIgnore(@)]
              IN /\ targets' = IF auto
                               THEN SetIgnoredOfSame(toggled, lockedTarget, TRUE)
                               ELSE unignored
                 /\ \E hopOk \in (IF auto THEN BOOLEAN ELSE {TRUE}) :
                      calls' = IF auto THEN <<HopCall(hopOk)>> ELSE <<>>
                 /\ EnterReset
                 /\ last' = [Event("enter", lockedTarget, channelLocked) EXCEPT !.sel = sel]
                 /\ UNCHANGED <<kismet, quit>>

\* Faulty variant: the ignore key releases the channel but keeps the target.
IgnoreKeepsTarget ==
    /\ UNCHANGED lockedTarget
    /\ channel' = ""
    /\ channelLocked' = FALSE

\* Mutant: the ignore key forgets the target but keeps the channel state.
IgnoreKeepsChannel ==
    /\ lockedTarget' = 0
    /\ UNCHANGED <<channel, channelLocked>>

\* "i": what is left of the acquisition state when a target was locked.
IgnoreReset ==
    /\ lockedTarget' = 0
    /\ channel' = ""
    /\ channelLocked' = FALSE

\* case "i"
IgnoreKey ==
    /\ ~quit
    /\ \E uuidOk \in BOOLEAN :
         IF ~uuidOk THEN UuidFailed
         ELSE /\ IF lockedTarget # 0
                 THEN LET toggled == [targets EXCEPT ![lockedTarget] = ToggleIgnore(@)]
                      IN /\ targets' = SetIgnoredOfSame(toggled, lockedTarget,
                                                        toggled[lockedTarget].Ignored)
                         /\ IgnoreReset
                 ELSE UNCHANGED <<targets, lockedTarget, channel, channelLocked>>
              /\ \E hopOk \in BOOLEAN : calls' = <<HopCall(hopOk)>>
              /\ last' = Event("ignore", lockedTarget, channelLocked)
              /\ UNCHANGED <<rssi, sinceReceived, kismet, quit>>

\* Mutant: the channel is locked again on every sample.
NeedsLockAlways(locked) == TRUE

\* Faulty variant: the channel lock is never attempted.
NeedsLockNever(locked) == FALSE

\* tickMsg: lock the channel if not already locked.
NeedsLock(locked) == ~locked

\* tickMsg: decay RSSI if no signal received in a while.
Decay(r, since) ==
    IF since > timeout /\ r > MinRSSI
    THEN IF r - decayRate < MinRSSI THEN MinRSSI ELSE r - decayRate
    ELSE r

NoCall == [kind |-> "none", devices |-> <<>>]

\* lockChannel returns at once, or blocks for longer than timeout (it has no
\* client timeout).
LockDelays == {0, timeout + 1}

\* The devices of a response, without their order: address, name and channel
\* ("" for a field the record does not carry).
SeenDevices(resp) ==
    { [mac |-> Str(resp.devices[j], "mac"), ssid |-> Str(resp.devices[j], "ssid"),
       channel |-> Str(resp.devices[j], "channel")] :
      j \in 1..Len(resp.devices) }

\* tickMsg, discovery: if m.lockedTarget == nil, FindValidTarget and, when it
\* returns a value, the new lockedTarget, channel and channelLocked.
Discovery(ts, lt, ch, locked, poll) ==
    IF lt # 0
    THEN [targets |-> ts, lockedTarget |-> lt, channel |-> ch, channelLocked |-> locked,
          discovered |-> FALSE]
    ELSE LET found == FindValidTarget(ts, poll)
         IN IF found.value # ""
            THEN [targets |-> found.targets, lockedTarget |-> found.target,
                  channel |-> found.channel, channelLocked |-> FALSE,
                  discovered |-> TRUE]
            ELSE [targets |-> found.targets, lockedTarget |-> lt, channel |-> ch,
                  channelLocked |-> locked, discovered |-> FALSE]

\* tickMsg, resolve: FetchDeviceInfo(m.lockedTarget.Value).
Resolve(d, resp) ==
    IF d.lockedTarget = 0 THEN NoInfo("nil")
    ELSE FetchDeviceInfo(d.targets[d.lockedTarget].Value, resp)

\* tickMsg, deviceInfo != nil: take the sample, lock the channel if it is not
\* locked yet (lockOk: lockChannel returned nil; delay: how long it took), then
\* the decay section.
Sampled(d, info, lockOk, delay) ==
    LET mustLock == NeedsLock(d.channelLocked)
        since1 == IF mustLock THEN delay ELSE 0
    IN [lockedTarget |-> d.lockedTarget,
        channel |-> info.Channel,
        channelLocked |-> IF mustLock THEN lockOk ELSE d.channelLocked,
        rssi |-> Decay(info.RSSI, since1),
        sinceReceived |-> since1,
        calls |-> IF mustLock THEN <<LockCall(info.Channel, lockOk)>> ELSE <<>>,
        decayed |-> Decay(info.RSSI, since1) # info.RSSI,
        sample |-> <<info.RSSI>>]

\* Mutant: a target whose signal has fully decayed is dropped.
QuietDrops(d, r, since) ==
    [lockedTarget |-> IF Decay(r, since) = MinRSSI THEN 0 ELSE d.lockedTarget,
     channel |-> d.channel,
     channelLocked |-> d.channelLocked /\ Decay(r, since) # MinRSSI,
     rssi |-> Decay(r, since),
     sinceReceived |-> since,
     calls |-> <<>>,
     decayed |-> Decay(r, since) # r,
     sample |-> <<>>]

\* Faulty variant: a tick without a device record appends the decayed value.
QuietAppends(d, r, since) ==
    [lockedTarget |-> d.lockedTarget,
     channel |-> d.channel,
     channelLocked |-> d.channelLocked,
     rssi |-> Decay(r, since),
     sinceReceived |-> since,
     calls |-> <<>>,
     decayed |-> Decay(r, since) # r,
     sample |-> <<Decay(r, since)>>]

\* tickMsg, deviceInfo == nil (or nothing locked): only the decay section runs.
Quiet(d, r, since) ==
    [lockedTarget |-> d.lockedTarget,
     channel |-> d.channel,
     channelLocked |-> d.channelLocked,
     rssi |-> Decay(r, since),
     sinceReceived |-> since,
     calls |-> <<>>,
     decayed |-> Decay(r, since) # r,
     sample |-> <<>>]

\* tickMsg: the acquisition state after the resolve, lock and decay sections.
AfterResolve(d, info, lockOk, delay, r, since) ==
    IF info.found THEN Sampled(d, info, lockOk, delay) ELSE Quiet(d, r, since)

ResolveOutcome(d, info) ==
    IF d.lockedTarget = 0 THEN "none"
    ELSE IF info.found THEN "ok"
    ELSE IF info.err = "notfound" THEN "notfound"
    ELSE "failed"

\* tickMsg: the HTTP calls of the tick that returned an error: FindValidTarget
\* (called when nothing is locked), FetchDeviceInfo (called when a target is
\* held after discovery; a status other than 200 comes back as
\* errDeviceNotFound) and lockChannel.
FailedCalls(lt, poll, d, resp, info, lockOk) ==
    (IF lt = 0 /\ poll.kind # "ok" THEN {"poll"} ELSE {})
    \cup (IF d.lockedTarget # 0 /\ resp.kind # "ok" THEN {"resolve"} ELSE {})
    \cup (IF info.found /\ NeedsLock(d.channelLocked) /\ ~lockOk THEN {"lock"} ELSE {})

\* Faulty variant: the quotient is handed to the progress bar as it is.
PercentUnclamped(r) ==
    r - MinRSSI

\* tickMsg, "Update progress bar": float64(m.rssi-MinRSSI) /
\* float64(MaxRSSI-MinRSSI), set to 0 below 0 and to 1 above 1.  The percent
\* is kept as its numerator over MaxRSSI - MinRSSI: 0 stands for 0.0 and
\* MaxRSSI - MinRSSI for 1.0 (the division by a positive constant keeps the
\* order and both comparisons).
PercentOf(r) ==
    LET percent == r - MinRSSI
    IN IF percent < 0 THEN 0
       ELSE IF percent > MaxRSSI - MinRSSI THEN MaxRSSI - MinRSSI
       ELSE percent

\* Faulty variant: a tick whose calls returned an error ends the session.
TickQuitsOnError(failed) == failed # {}

\* tickMsg returns tea.Batch(tickCmd(), ...), never tea.Quit, whatever its
\* calls returned: the errors are only logged.
TickQuits(failed) == FALSE

\* case tickMsg
Tick ==
    /\ ~quit
    /\ \E uuidOk \in BOOLEAN :
       IF ~uuidOk THEN UuidFailed
       ELSE
       \E poll \in (IF lockedTarget = 0 THEN PollResponses ELSE {NoCall}) :
       \E d \in {Discovery(targets, lockedTarget, channel, channelLocked, poll)} :
       \E resp \in (IF d.lockedTarget # 0 THEN ResolveResponses ELSE {NoCall}) :
       \E info \in {Resolve(d, resp)} :
       \E lockOk \in (IF info.found /\ NeedsLock(d.channelLocked) THEN BOOLEAN ELSE {FALSE}),
          delay \in (IF info.found /\ NeedsLock(d.channelLocked) THEN LockDelays ELSE {0}) :
       \E a \in {AfterResolve(d, info, lockOk, delay, rssi, sinceReceived)} :
          /\ targets' = d.targets
          /\ lockedTarget' = a.lockedTarget
          /\ channel' = a.channel
          /\ channelLocked' = a.channelLocked
          /\ rssi' = a.rssi
          /\ sinceReceived' = a.sinceReceived
          /\ calls' = a.calls
          /\ last' = [kind |-> "tick", from |-> lockedTarget,
                      fromLocked |-> channelLocked, sel |-> 0,
                      discovered |-> d.discovered,
                      seen |-> IF lockedTarget = 0 /\ poll.kind = "ok"
                               THEN SeenDevices(poll) ELSE {},
                      resolve |-> ResolveOutcome(d, info),
                      decayed |-> a.decayed,
                      sample |-> a.sample,
                      failed |-> FailedCalls(lockedTarget, poll, d, resp, info, lockOk),
                      percent |-> <<PercentOf(a.rssi)>>]
          /\ quit' = TickQuits(FailedCalls(lockedTarget, poll, d, resp, info, lockOk))
          /\ UNCHANGED kismet

\* Time passes between two events, in steps of timeout: sinceReceived is 0,
\* timeout (not yet stale) or timeout + 1 (stale).
TimePasses ==
    /\ ~quit
    /\ sinceReceived <= timeout
    /\ sinceReceived' = Min(sinceReceived + timeout, timeout + 1)
    /\ UNCHANGED <<targets, lockedTarget, channelLocked, channel, rssi, kismet, quit,
                   calls, last>>

Next ==
    \/ /\ Tick
       /\ lockedDeviceInfo' = InfoAfter(lockedDeviceInfo, last', 0)
       /\ UNCHANGED <<history, creds, radio, scroll, ticks, fetched>>
    \/ /\ \E sel \in 1..Len(targets) : Enter(sel)
       /\ lockedDeviceInfo' = InfoAfter(lockedDeviceInfo, last', 0)
       /\ UNCHANGED <<history, creds, radio, scroll, ticks, fetched>>
    \/ /\ IgnoreKey
       /\ lockedDeviceInfo' = InfoAfter(lockedDeviceInfo, last', 0)
       /\ UNCHANGED <<history, creds, radio, scroll, ticks, fetched>>
    \/ QuitKey /\ UNCHANGED <<history, creds, radio, lockedDeviceInfo, scroll, ticks, fetched>>
    \/ TimePasses /\ UNCHANGED <<history, creds, radio, lockedDeviceInfo, scroll, ticks, fetched>>

Spec == Init /\ [][Next]_vars

(***************************************************************************)
(* The history buffer.  SpecHistory follows m.rssiData through a run of    *)
(* handled events: a tick that got a device record appends the sample,     *)
(* every other event leaves the buffer alone.  The k-th sample of the run  *)
(* is SampleAt(k), so that any two samples the buffer can hold at once     *)
(* differ and their order shows.  The acquisition variables stay as Init   *)
(* leaves them.                                                            *)
(***************************************************************************)
MaxSamples == 60    \* samples appended in one run

\* The signal of the k-th sample: within [MinRSSI, MaxRSSI], no value twice
\* among 101 samples in a row.
SampleAt(k) == MinRSSI + (k % (MaxRSSI - MinRSSI + 1))

\* Faulty variant: a full buffer drops the new sample instead of the oldest.
AppendSampleKeepsOldest(data, r) ==
    IF Len(data) + 1 > HistoryCap THEN data ELSE Append(data, r)

\* m.rssiData = append(m.rssiData, m.rssi), then the trim to the last 50.
AppendSample(data, r) ==
    LET longer == Append(data, r)
    IN IF Len(longer) > HistoryCap THEN Tail(longer) ELSE longer

\* tickMsg with deviceInfo != nil, seen from the buffer.
HistorySample ==
    /\ ~quit
    /\ samples < MaxSamples
    /\ samples' = samples + 1
    /\ rssiData' = AppendSample(rssiData, SampleAt(samples + 1))
    /\ last' = [Event("tick", lockedTarget, channelLocked) EXCEPT
                  !.resolve = "ok", !.sample = <<SampleAt(samples + 1)>>]
    /\ UNCHANGED <<targets, lockedTarget, channelLocked, channel, rssi, sinceReceived,
                   kismet, quit, calls, creds, radio, lockedDeviceInfo, scroll, ticks, fetched>>

\* Any other handled event (a tick without device record, a key): the buffer
\* is not written.
HistoryOther ==
    /\ ~quit
    /\ \E kind \in {"tick", "enter", "ignore"} :
         last' = Event(kind, lockedTarget, channelLocked)
    /\ UNCHANGED <<targets, lockedTarget, channelLocked, channel, rssi, sinceReceived,
                   kismet, quit, calls, history, creds, radio, lockedDeviceInfo,
                   scroll, ticks, fetched>>

NextHistory == HistorySample \/ HistoryOther

SpecHistory == Init /\ [][NextHistory]_vars

(***************************************************************************)
(* The data source.  SpecRadio is Spec with the detector's side of the     *)
(* channel commands: the events are the same, and radio follows the        *)
(* commands the detector accepted.                                         *)
(***************************************************************************)

\* The data source after the commands of an event: the detector applies
\* the ones it answered with 200, in the order they were sent.
RECURSIVE RadioAfter(_, _, _)
RadioAfter(r, cs, k) ==
    IF k > Len(cs) THEN r
    ELSE RadioAfter(IF ~cs[k].ok THEN r
                    ELSE IF cs[k].op = "hop" THEN Hopping
                    ELSE Pinned(cs[k].channel),
                    cs, k + 1)

NextRadio ==
    \/ /\ Tick
       /\ radio' = RadioAfter(radio, calls', 1)
       /\ UNCHANGED <<history, creds, lockedDeviceInfo, scroll, ticks, fetched>>
    \/ /\ \E sel \in 1..Len(targets) : Enter(sel)
       /\ radio' = RadioAfter(radio, calls', 1)
       /\ UNCHANGED <<history, creds, lockedDeviceInfo, scroll, ticks, fetched>>
    \/ /\ IgnoreKey
       /\ radio' = RadioAfter(radio, calls', 1)
       /\ UNCHANGED <<history, creds, lockedDeviceInfo, scroll, ticks, fetched>>
    \/ QuitKey /\ UNCHANGED <<history, creds, radio, lockedDeviceInfo, scroll, ticks, fetched>>
    \/ TimePasses /\ UNCHANGED <<history, creds, radio, lockedDeviceInfo, scroll, ticks, fetched>>

SpecRadio == Init /\ [][NextRadio]_vars

(***************************************************************************)
(* The credentials cache.  SpecCreds follows creds through a run of        *)
(* detector requests, from every configuration of user and password; the   *)
(* acquisition variables stay as Init leaves them.                         *)
(***************************************************************************)
MaxRequests == 6    \* requests built in one run

\* The client functions that build their request with CreateRequest.
RequestOps == {"GetUUIDForInterface", "FindValidTarget", "FetchDeviceInfo",
               "lockChannel", "hopChannel"}

InitCreds ==
    /\ targets \in Registries
    /\ lockedTarget = 0
    /\ channelLocked = FALSE
    /\ channel = ""
    /\ rssi = MinRSSI
    /\ sinceReceived = 0
    /\ kismet = "running"
    /\ quit = FALSE
    /\ calls = <<>>
    /\ last = Event("init", 0, FALSE)
    /\ rssiData = <<>>
    /\ samples = 0
    /\ \E user \in {"", "user"}, password \in {"", "secret"} :
         creds = Unfetched(user, password)
    /\ radio = Hopping
    /\ lockedDeviceInfo = NoDeviceInfo
    /\ clientScrollOffset = 0
    /\ focusOnClients = FALSE
    /\ ticks = Len(SelectSeq(InitCmd, IsTickCmd))
    /\ fetched = NoFetch

\* One detector request.
Request ==
    /\ creds.requests < MaxRequests
    /\ \E op \in RequestOps : creds' = CreateRequest(creds, op)
    /\ UNCHANGED <<targets, lockedTarget, channelLocked, channel, rssi, sinceReceived,
                   kismet, quit, calls, last, history, radio, lockedDeviceInfo,
                   scroll, ticks, fetched>>

NextCreds == Request

SpecCreds == InitCreds /\ [][NextCreds]_vars

(***************************************************************************)
(* FetchDeviceInfo, the fields of the record it matched. A decoded JSON    *)
(* value is absent, a string, a number (float64) or an object              *)
(* (map[string]interface{}); each field of DeviceInfo is set by a checked  *)
(* type assertion over its default.                                        *)
(***************************************************************************)
Absent == [t |-> "absent", s |-> "", n |-> 0, o |-> <<>>]
JString(s) == [t |-> "string", s |-> s, n |-> 0, o |-> <<>>]
JNumber(n) == [t |-> "number", s |-> "", n |-> n, o |-> <<>>]
JObject(f) == [t |-> "object", s |-> "", n |-> 0, o |-> f]

\* The Go value of a decoded value.
ValueOf(j) ==
    IF j.t = "string" THEN j.s ELSE IF j.t = "number" THEN j.n ELSE j.o

\* fmt.Sprintf("%v", assoc) of a decoded value: a string as it is, a number
\* in decimal.
Sprintf(j) == IF j.t = "string" THEN j.s ELSE ToString(j.n)

\* Faulty variant: a field that is absent is left empty.
FieldOrEmpty(j, type, default) ==
    IF j.t = type THEN ValueOf(j) ELSE ""

\* if v, ok := device[key].(T); ok { field = v }, over the default.
FieldOr(j, type, default) ==
    IF j.t = type THEN ValueOf(j) ELSE default

\* The associated clients of a record: each value formatted into the map.
ClientsOf(j) ==
    IF j.t = "object" THEN [c \in DOMAIN j.o |-> Sprintf(j.o[c])] ELSE <<>>

\* deviceInfo := &DeviceInfo{defaults}, then the field extractions.
FullDeviceInfo(rec) ==
    [RSSI |-> FieldOr(rec.RSSI, "number", MinRSSI),
     Channel |-> FieldOr(rec.channel, "string", ""),
     Manufacturer |-> FieldOr(rec.Make, "string", "Unknown"),
     SSID |-> FieldOr(rec.SSID, "string", "Unknown"),
     Crypt |-> FieldOr(rec.Crypt, "string", "Unknown"),
     Type |-> FieldOr(rec.Type, "string", "Unknown"),
     AssociatedClients |-> ClientsOf(rec.AssociatedClients)]

\* The device records of the resolve response that carry the address asked
\* for: every field absent, of another type than the one asserted, or of
\* that type.
MatchedRecords ==
    [RSSI : {Absent, JString("-40"), JNumber(-40), JNumber(MinRSSI - 10)},
     channel : {Absent, JNumber(6), JString("6"), JString("")},
     Make : {Absent, JNumber(0), JString("Acme")},
     SSID : {Absent, JNumber(0), JString("net1")},
     Crypt : {Absent, JNumber(0), JString("WPA2")},
     Type : {Absent, JNumber(0), JString("Wi-Fi AP")},
     AssociatedClients : {Absent, JString(""), JObject(<<>>),
                          JObject([c \in {"cc:01"} |-> JString("key1")]),
                          JObject([c \in {"cc:01", "cc:02"} |-> JNumber(1)])}]

\* The engine as main leaves it, with the record the detector will answer.
InitInfo ==
    /\ targets = <<TargetItem("aa:01", MAC)>>
    /\ lockedTarget = 0
    /\ channelLocked = FALSE
    /\ channel = ""
    /\ rssi = MinRSSI
    /\ sinceReceived = 0
    /\ kismet = "running"
    /\ quit = FALSE
    /\ calls = <<>>
    /\ last = Event("init", 0, FALSE)
    /\ rssiData = <<>>
    /\ samples = 0
    /\ creds = Unfetched("user", "secret")
    /\ radio = Hopping
    /\ lockedDeviceInfo = NoDeviceInfo
    /\ clientScrollOffset = 0
    /\ focusOnClients = FALSE
    /\ ticks = Len(SelectSeq(InitCmd, IsTickCmd))
    /\ \E rec \in MatchedRecords :
         fetched = [done |-> FALSE, record |-> rec, info |-> NoDeviceInfo]

\* FetchDeviceInfo finds the record of the address in the response and
\* returns its DeviceInfo.
Fetch ==
    /\ ~fetched.done
    /\ fetched' = [done |-> TRUE, record |-> fetched.record,
                   info |-> FullDeviceInfo(fetched.record)]
    /\ UNCHANGED <<targets, lockedTarget, channelLocked, channel, rssi, sinceReceived,
                   kismet, quit, calls, last, history, creds, radio, lockedDeviceInfo,
                   scroll, ticks>>

NextInfo == Fetch

SpecInfo == InitInfo /\ [][NextInfo]_vars

(***************************************************************************)
(* The target pane and the tick chain. SpecView follows lockedDeviceInfo   *)
(* with the number of associated clients of each sample, the client list's *)
(* focus and scroll offset, and the outstanding tick commands, through     *)
(* every message Update has a case for.                                    *)
(***************************************************************************)
maxVisibleClients == 8

MaxClients == 10    \* most associated clients in one device record

\* Numbers of associated clients a device record may carry.
ClientCounts == {0, MaxClients - 1, MaxClients}

\* The condition of the tab, up and down cases: a target is locked, its
\* device info is held and has associated clients.
ClientsShown(lt, info) == lt # 0 /\ info.held /\ info.clients > 0

\* case "down", "j", with the focus on the client list
ScrollDown(offset, n) ==
    IF offset < n - maxVisibleClients THEN offset + 1 ELSE offset

\* case "up", "k", with the focus on the client list
ScrollUp(offset) ==
    IF offset > 0 THEN offset - 1 ELSE offset

\* What enter and "i" leave of the client list: both reset it with the target
\* ("i" when a target was locked); no other event resets it.
ScrollAfter(s, ev) ==
    IF ev.kind = "enter" \/ (ev.kind = "ignore" /\ ev.from # 0) THEN <<0, FALSE>>
    ELSE s

\* An event that leaves the acquisition state alone.
ViewEvent(kind) ==
    /\ calls' = <<>>
    /\ last' = Event(kind, lockedTarget, channelLocked)
    /\ UNCHANGED <<targets, lockedTarget, channelLocked, channel, rssi, sinceReceived,
                   kismet, quit>>

\* case "tab"
TabKey ==
    /\ ~quit
    /\ \E uuidOk \in BOOLEAN :
         IF ~uuidOk THEN UuidFailed /\ UNCHANGED scroll
         ELSE /\ focusOnClients' = IF ClientsShown(lockedTarget, lockedDeviceInfo)
                                   THEN ~focusOnClients ELSE focusOnClients
              /\ UNCHANGED clientScrollOffset
              /\ ViewEvent("tab")

\* case "up", "k": scrolls the client list when it has the focus, moves the
\* cursor of the target list otherwise.
UpKey ==
    /\ ~quit
    /\ \E uuidOk \in BOOLEAN :
         IF ~uuidOk THEN UuidFailed /\ UNCHANGED scroll
         ELSE IF focusOnClients /\ ClientsShown(lockedTarget, lockedDeviceInfo)
         THEN /\ clientScrollOffset' = ScrollUp(clientScrollOffset)
              /\ UNCHANGED focusOnClients
              /\ ViewEvent("up")
         ELSE UNCHANGED scroll /\ ViewEvent("nav")

\* case "down", "j"
DownKey ==
    /\ ~quit
    /\ \E uuidOk \in BOOLEAN :
         IF ~uuidOk THEN UuidFailed /\ UNCHANGED scroll
         ELSE IF focusOnClients /\ ClientsShown(lockedTarget, lockedDeviceInfo)
         THEN /\ clientScrollOffset' = ScrollDown(clientScrollOffset,
                                                  lockedDeviceInfo.clients)
              /\ UNCHANGED focusOnClients
              /\ ViewEvent("down")
         ELSE UNCHANGED scroll /\ ViewEvent("nav")

\* tea.WindowSizeMsg ("resize"), progress.FrameMsg ("frame"), the keys left,
\* h, right, l ("nav") and every other message ("other").
OtherMsg ==
    /\ ~quit
    /\ \E uuidOk \in BOOLEAN :
         IF ~uuidOk THEN UuidFailed
         ELSE \E kind \in {"resize", "frame", "nav", "other"} : ViewEvent(kind)
    /\ UNCHANGED scroll

\* One registry is enough for the pane.
InitView == Init /\ targets = <<TargetItem("aa:01", MAC)>>

\* What every event of SpecView does to the pane and to the tick chain.
\* delivered: 1 for a tickMsg. The keys that reset the pane set scroll.
ViewFollows(delivered) ==
    /\ \E n \in (IF last'.kind = "tick" /\ last'.resolve = "ok" THEN ClientCounts ELSE {0}) :
         lockedDeviceInfo' = InfoAfter(lockedDeviceInfo, last', n)
    /\ \E more \in (IF last'.kind \in {"frame", "nav"} THEN BOOLEAN ELSE {FALSE}) :
         ticks' = TicksAfter(ticks, delivered, Returned(last', more))
    /\ UNCHANGED <<history, creds, radio, fetched>>

NextView ==
    \/ /\ ticks > 0
       /\ Tick
       /\ UNCHANGED scroll
       /\ ViewFollows(1)
    \/ /\ \E sel \in 1..Len(targets) : Enter(sel)
       /\ clientScrollOffset' = ScrollAfter(scroll, last')[1]
       /\ focusOnClients' = ScrollAfter(scroll, last')[2]
       /\ ViewFollows(0)
    \/ /\ IgnoreKey
       /\ clientScrollOffset' = ScrollAfter(scroll, last')[1]
       /\ focusOnClients' = ScrollAfter(scroll, last')[2]
       /\ ViewFollows(0)
    \/ QuitKey /\ UNCHANGED scroll /\ ViewFollows(0)
    \/ TabKey /\ ViewFollows(0)
    \/ UpKey /\ ViewFollows(0)
    \/ DownKey /\ ViewFollows(0)
    \/ OtherMsg /\ ViewFollows(0)
    \/ TimePasses /\ UNCHANGED <<history, creds, radio, lockedDeviceInfo, scroll, ticks, fetched>>

SpecView == InitView /\ [][NextView]_vars

(***************************************************************************)
(* Properties                                                              *)
(***************************************************************************)
NoLockCall == \A k \in 1..Len(calls) : calls[k].op # "lock"
HopCalls == { k \in 1..Len(calls) : calls[k].op = "hop" }

\* Whether the device a target stands for is in the discovery response of
\* event ev: a device with the address of an ADDRESS target, a device
\* broadcasting the name of a NAME target not resolved yet, or the device a
\* NAME target was resolved to, still broadcasting the name.
SeenIn(t, ev) ==
    \E x \in ev.seen :
        IF t.TType = MAC THEN x.mac = t.Value
        ELSE IF t.OriginalValue = "" THEN x.ssid = t.Value
        ELSE x.mac = t.Value /\ x.ssid = t.OriginalValue

C2_SignalInRange == rssi >= MinRSSI /\ rssi <= MaxRSSI

\* C3: ignored targets are skipped by acquisition. After a tick whose discovery
\* set lockedTarget, the locked target is not ignored; with a registry of two
\* targets whose first is ignored, the target discovery set is the second.
C3_IgnoredSkipped ==
    (last.kind = "tick" /\ last.discovered) =>
        /\ lockedTarget # 0
        /\ ~targets[lockedTarget].Ignored
        /\ (Len(targets) = 2 /\ targets[1].Ignored) => lockedTarget = 2

\* Discovery took the second target although the device of the ignored first
\* one was in the same response.
C3_Witness ==
    /\ last.kind = "tick" /\ last.discovered
    /\ Len(targets) = 2 /\ targets[1].Ignored /\ SeenIn(targets[1], last)
    /\ lockedTarget = 2

\* The first target in registry order that is not ignored and whose device is
\* in the discovery response of ev; 0 when there is none.
RECURSIVE FirstSeen(_, _, _)
FirstSeen(ts, ev, i) ==
    IF i > Len(ts) THEN 0
    ELSE IF ~ts[i].Ignored /\ SeenIn(ts[i], ev) THEN i
    ELSE FirstSeen(ts, ev, i + 1)

\* C4: after a tick in SEARCHING, lockedTarget is the first target in registry
\* order that is not ignored and visible in the poll result, whatever the order
\* of the devices in the response, and none when no such target is visible.
C4_FirstInRegistryOrder ==
    (last.kind = "tick" /\ last.from = 0) => lockedTarget = FirstSeen(targets, last, 1)

\* C5: after the ignore key pressed with a target locked (ACQUIRING or
\* LOCKED), that target is ignored, nothing is locked, channelLocked is false,
\* the channel is empty and the event issued exactly one hopChannel call.
C5_IgnoreReleases ==
    (last.kind = "ignore" /\ last.from # 0) =>
        /\ targets[last.from].Ignored
        /\ lockedTarget = 0
        /\ channelLocked = FALSE
        /\ channel = ""
        /\ Len(calls) = 1 /\ Cardinality(HopCalls) = 1

\* The ignore key was pressed in LOCKED.
C5_Witness ==
    /\ last.kind = "ignore" /\ last.from # 0 /\ last.fromLocked
    /\ lockedTarget = 0 /\ targets[last.from].Ignored

\* C6 as claimed: a select with a target held, whether or not its channel lock
\* has succeeded, marks that target ignored and issues a hopChannel call.
C6_AutoIgnoreOnSwitch ==
    (last.kind = "enter" /\ last.from # 0) =>
        targets[last.from].Ignored /\ HopCalls # {}

\* C6 as amended: a select with a target held whose channel lock has succeeded
\* marks that target ignored and issues one hopChannel call; a select with a
\* target held whose channel is not locked yet does neither.
C6_AutoIgnoreWhenLocked ==
    (last.kind = "enter" /\ last.from # 0) =>
        IF last.fromLocked
        THEN targets[last.from].Ignored /\ Len(calls) = 1 /\ Cardinality(HopCalls) = 1
        ELSE ~targets[last.from].Ignored /\ calls = <<>>

\* The user switched from a LOCKED target to another one.
C6_Witness ==
    /\ last.kind = "enter" /\ last.from # 0 /\ last.fromLocked /\ last.sel # last.from
    /\ targets[last.from].Ignored /\ Cardinality(HopCalls) = 1

\* C7: after a select event nothing is locked and the channel lock flag is
\* down (SEARCHING), whatever the state before it, so that the next tick runs
\* discovery.
C7_SelectResets ==
    last.kind = "enter" => lockedTarget = 0 /\ channelLocked = FALSE

\* A select in LOCKED.
C7_Witness ==
    /\ last.kind = "enter" /\ last.from # 0 /\ last.fromLocked
    /\ lockedTarget = 0 /\ channelLocked = FALSE

\* C8: on the tick that follows the select of target T, if T is visible in
\* the poll result then T becomes lockedTarget, other visible targets or not.
C8_SelectedMatchedFirst ==
    [][(last.kind = "enter" /\ last'.kind = "tick" /\ SeenIn(targets[last.sel], last'))
         => lockedTarget' = last.sel]_vars

LockSucceeded == \E k \in 1..Len(calls) : calls[k].op = "lock" /\ calls[k].ok

C10_DecayMonotone ==
    [][(last'.kind = "tick" /\ last'.resolve # "ok" /\ sinceReceived > timeout)
         => rssi' = Max(rssi - decayRate, MinRSSI)]_vars

\* A step that handles a tick: the event record is a tick's and the step is
\* not the mere passing of time after one.
TickStep == last'.kind = "tick" /\ ~TimePasses

\* C11: decay is gated by staleness. A tick without a new sample taken when
\* the last sample is at most timeout old leaves signalLevel as it was; a tick
\* lowers signalLevel by decay only when the last sample is older than timeout
\* and signalLevel is above MinRSSI, and never when it received a sample.
C11_DecayGated ==
    [][TickStep =>
         /\ (last'.resolve # "ok" /\ sinceReceived <= timeout) => rssi' = rssi
         /\ last'.decayed =>
                /\ last'.resolve # "ok"
                /\ sinceReceived > timeout
                /\ rssi > MinRSSI]_vars

LockCalls == { k \in 1..Len(calls) : calls[k].op = "lock" }
LockFailed == \E k \in LockCalls : ~calls[k].ok

\* C12: a lockChannel call that fails during a tick leaves channelLocked
\* false and the target held (ACQUIRING); every tick that takes a sample with
\* the channel not locked yet issues one lockChannel call, so the call is
\* made again on the next tick whose resolve call succeeds, and channelLocked
\* is raised exactly when that call succeeds (LOCKED).
C12_LockRetried ==
    last.kind = "tick" =>
        /\ LockFailed =>
               /\ ~channelLocked
               /\ lockedTarget # 0
               /\ (last.from # 0 => lockedTarget = last.from)
        /\ (last.resolve = "ok" /\ ~last.fromLocked) =>
               /\ Len(calls) = 1 /\ LockCalls = {1}
               /\ channelLocked = calls[1].ok

\* A tick that started in ACQUIRING took a sample, tried the lock again,
\* failed again and is still in ACQUIRING with the same target.
C12_Witness ==
    /\ last.kind = "tick" /\ last.from # 0 /\ ~last.fromLocked /\ last.resolve = "ok"
    /\ LockFailed /\ ~channelLocked /\ lockedTarget = last.from

\* The channels on which the discovery response of event ev reported address
\* mac.
PollChannels(ev, mac) == { x.channel : x \in { y \in ev.seen : y.mac = mac } }

\* The case of scenario A: a tick in SEARCHING with a registry of one
\* non-ignored ADDRESS target, whose poll reported the address on one channel,
\* whose resolve call reported it on that channel (channel is the sampled
\* one) and whose lock call succeeded.
ScenarioA ==
    /\ last.kind = "tick" /\ last.from = 0
    /\ Len(targets) = 1 /\ targets[1].TType = MAC /\ ~targets[1].Ignored
    /\ PollChannels(last, targets[1].Value) = {channel}
    /\ last.resolve = "ok"
    /\ \A k \in 1..Len(calls) : calls[k].ok

C14_ResolutionOneWay ==
    [][\A i \in 1..Len(targets) :
           (targets[i].TType = SSID /\ targets[i].OriginalValue # "") =>
               /\ targets'[i].Value = targets[i].Value
               /\ targets'[i].OriginalValue = targets[i].OriginalValue]_vars

\* The first target in registry order that is not ignored; 0 when all are.
RECURSIVE FirstNotIgnored(_, _)
FirstNotIgnored(ts, i) ==
    IF i > Len(ts) THEN 0
    ELSE IF ~ts[i].Ignored THEN i
    ELSE FirstNotIgnored(ts, i + 1)

\* C15: discovery matches a resolved NAME target by its address. On a tick in
\* SEARCHING, if the first non-ignored target in registry order is a NAME
\* target whose Value was rewritten to address A, and the poll holds a device
\* with address A broadcasting the target's name, that target becomes
\* lockedTarget.
C15_ResolvedNameReacquired ==
    [][\A i \in 1..Len(targets) :
           ( /\ TickStep /\ lockedTarget = 0
             /\ i = FirstNotIgnored(targets, 1)
             /\ targets[i].TType = SSID /\ targets[i].OriginalValue # ""
             /\ \E x \in last'.seen : /\ x.mac = targets[i].Value
                                      /\ x.ssid = targets[i].OriginalValue )
           => lockedTarget' = i]_vars

\* C16: the history buffer never holds more than 50 samples, and it equals
\* the most recent min(n, 50) of the n samples appended so far, in arrival
\* order (the oldest at the front, the newest at the back).
C16_HistoryBounded ==
    /\ Len(rssiData) <= HistoryCap
    /\ Len(rssiData) = Min(samples, HistoryCap)
    /\ \A i \in 1..Len(rssiData) :
           rssiData[i] = SampleAt(samples - Len(rssiData) + i)

\* Two samples were evicted: the buffer is full and starts at the third.
C16_Witness ==
    /\ samples = HistoryCap + 2
    /\ Len(rssiData) = HistoryCap
    /\ rssiData[1] = SampleAt(3)
    /\ rssiData[HistoryCap] = SampleAt(HistoryCap + 2)

\* C17: selecting the target that is currently locked is a no-op: the step
\* of an enter with the cursor on lockedTarget leaves lockedTarget,
\* channelLocked, channel and rssi as they were, and every target's ignored
\* flag too.
C17_ReselectNoOp ==
    [][(last'.kind = "enter" /\ lockedTarget # 0 /\ last'.sel = lockedTarget) =>
           /\ UNCHANGED <<lockedTarget, channelLocked, channel, rssi>>
           /\ \A i \in 1..Len(targets) : targets'[i].Ignored = targets[i].Ignored]_vars

\* A step that handles the ignore key.
IgnoreStep == last'.kind = "ignore" /\ ~TimePasses

\* C18 as claimed: the ignore key pressed with nothing locked changes no
\* acquisition state and no ignored flag, and sends no command to the
\* detector.
C18_IgnoreIdleNoOp ==
    [][(IgnoreStep /\ lockedTarget = 0) =>
           /\ UNCHANGED <<targets, lockedTarget, channelLocked, channel, rssi>>
           /\ calls' = <<>>]_vars

\* C18 as amended: the ignore key pressed with nothing locked changes no
\* acquisition state and no ignored flag; it sends exactly one hopChannel
\* command and no lockChannel command.
C18_IgnoreIdleHops ==
    [][(IgnoreStep /\ lockedTarget = 0) =>
           /\ UNCHANGED <<targets, lockedTarget, channelLocked, channel, rssi>>
           /\ Len(calls') = 1 /\ calls'[1].op = "hop"]_vars

\* The ignore key was pressed in SEARCHING and a hop command went out.
C18_Witness ==
    /\ last.kind = "ignore" /\ last.from = 0
    /\ lockedTarget = 0 /\ Len(calls) = 1 /\ calls[1].op = "hop"

\* A step that handles the enter key.
EnterStep == last'.kind = "enter" /\ ~TimePasses

\* C19: selecting an ignored target un-ignores it. After the step of an
\* enter with the cursor on a target whose Ignored flag was true, the flag of
\* that target is false.
C19_SelectUnignores ==
    [][(EnterStep /\ targets[last'.sel].Ignored) => ~targets'[last'.sel].Ignored]_vars

\* C20: a failed HTTP call makes the tick a tick without data. After the
\* step of a tick in which an HTTP call returned an error, lockedTarget,
\* channelLocked, channel and the registry are as before, nothing was appended
\* to rssiData, and rssi is what the decay section makes of it.
C20_FailedTickNoData ==
    [][(TickStep /\ last'.failed # {}) =>
           /\ UNCHANGED <<targets, lockedTarget, channelLocked, channel>>
           /\ last'.sample = <<>>
           /\ rssi' = Decay(rssi, sinceReceived)]_vars

\* C20, amended: a failed discovery poll or resolve call yields no data. After
\* the step of a tick whose FindValidTarget or FetchDeviceInfo call returned
\* an error, nothing was appended to rssiData, no detector command was sent,
\* channelLocked is as before and rssi is what the decay section makes of
\* it; lockedTarget, channel and the registry are as before as well, unless
\* discovery succeeded in the same tick before the resolve call failed.
C20_FailedPollingNoData ==
    [][(TickStep /\ last'.failed \cap {"poll", "resolve"} # {}) =>
           /\ last'.sample = <<>>
           /\ calls' = <<>>
           /\ channelLocked' = channelLocked
           /\ rssi' = Decay(rssi, sinceReceived)
           /\ ~last'.discovered => UNCHANGED <<targets, lockedTarget, channel>>]_vars

\* A tick whose discovery found a target and whose resolve call then failed:
\* the target is held, unlocked, and no sample was taken.
C20_Witness ==
    /\ last.kind = "tick" /\ "resolve" \in last.failed /\ last.discovered
    /\ lockedTarget # 0 /\ ~channelLocked /\ last.sample = <<>>

\* A step that handles an event whose GetUUIDForInterface call failed.
FatalStep == ~quit /\ last'.kind = "fatal"

\* C21: a failed interface-UUID resolution is fatal. The step of an event
\* whose UUID resolution failed kills the detector process and quits the
\* program; it sends no channel command and leaves the registry, lockedTarget,
\* channelLocked, channel and rssi as they were.
C21_UuidFailureFatal ==
    [][FatalStep =>
           /\ kismet' = "killed"
           /\ quit'
           /\ calls' = <<>>
           /\ UNCHANGED <<targets, lockedTarget, channelLocked, channel, rssi>>]_vars

\* The UUID resolution failed while a target was held with its channel locked:
\* the program has quit, the detector is killed and the target is still held.
C21_Witness ==
    /\ last.kind = "fatal" /\ quit /\ kismet = "killed"
    /\ lockedTarget # 0 /\ channelLocked /\ calls = <<>>

\* The calls of the last event that returned an error: the polling and lock
\* calls of a tick, the hop call of a key.
FailedOfLast == last.failed \cup { calls[k].op : k \in { j \in 1..Len(calls) : ~calls[j].ok } }

\* C22: detector errors never end the session. The program has quit only
\* after a quit key or a failed UUID resolution; after a tick, a select or an
\* ignore key, whatever their polling, lock and hop calls returned, it has
\* not quit and the detector process runs.
C22_ErrorsKeepSession ==
    /\ quit => last.kind \in {"quit", "fatal"}
    /\ last.kind \in {"tick", "enter", "ignore"} => ~quit /\ kismet = "running"

\* A tick whose resolve call found the target without a channel field and
\* whose lock call then failed: the session goes on.
C22_Witness ==
    /\ last.kind = "tick" /\ "lock" \in FailedOfLast /\ channel = ""
    /\ ~quit /\ kismet = "running"

\* C23: FetchDeviceInfo tells a failed call from an absent device. After a
\* tick that called it: the result was errDeviceNotFound only if the call
\* itself succeeded; a call that failed gave no device and an outcome other
\* than not found; and a device that was returned is a record of the held
\* target's address, whose signal is the sample of the tick.
C23_NotFoundOnlyWhenAbsent ==
    (last.kind = "tick" /\ last.resolve # "none") =>
        /\ last.resolve = "notfound" => "resolve" \notin last.failed
        /\ "resolve" \in last.failed => last.resolve = "failed"
        /\ last.resolve = "ok" =>
               /\ "resolve" \notin last.failed
               /\ \E r \in ResolveRecords :
                      /\ r.mac = targets[lockedTarget].Value
                      /\ last.sample = <<IF Has(r, "rssi") THEN r.rssi ELSE MinRSSI>>

\* C24: channelLocked belongs to the current lockedTarget. It is true after
\* a step only if a target is held and either it was true before for the same
\* lockedTarget or a lockChannel call of the step succeeded; so after a step
\* that changes lockedTarget (discovery, select, ignore) it is false unless a
\* lock call for the new target succeeded within the step.
C24_LockFlagFollowsTarget ==
    [][/\ channelLocked' =>
              /\ lockedTarget' # 0
              /\ \/ channelLocked /\ lockedTarget' = lockedTarget
                 \/ LockSucceeded'
       /\ (lockedTarget' # lockedTarget /\ ~LockSucceeded') => ~channelLocked']_vars

\* Discovery has taken a new target while the lock call of the same tick
\* failed: the target is held with channelLocked false.
C24_Witness ==
    /\ last.kind = "tick" /\ last.discovered /\ last.from = 0
    /\ lockedTarget # 0 /\ LockFailed /\ ~channelLocked

\* C25: the credentials are read from the configuration at most once, on
\* the first request, and every request uses what that read gave: the
\* configured user and password, or the error when one of them is empty, in
\* which case no request reaches the network.
C25_CredentialsCachedOnce ==
    /\ creds.fetches <= 1
    /\ creds.fetches = (IF creds.requests = 0 THEN 0 ELSE 1)
    /\ creds.requests > 0 =>
           /\ creds.lastErr = (creds.cfgUser = "" \/ creds.cfgPassword = "")
           /\ creds.lastErr = creds.credentialsErr
           /\ ~creds.lastErr => /\ creds.lastUser = creds.cfgUser
                                /\ creds.lastPassword = creds.cfgPassword
                                /\ creds.sent = creds.requests
           /\ creds.lastErr => creds.sent = 0

\* Several requests were asked for with an empty password: the configuration
\* was read once and none of them was sent.
C25_Witness ==
    /\ creds.cfgUser # "" /\ creds.cfgPassword = ""
    /\ creds.requests >= 3 /\ creds.fetches = 1 /\ creds.sent = 0 /\ creds.lastErr

\* C26: the percent of a tick is the clamped position of rssi between
\* MinRSSI and MaxRSSI. After a tick the percent handed to the progress bar
\* (numerator over MaxRSSI - MinRSSI) is within [0, 1], is 0 when rssi is at
\* or below MinRSSI, 1 when rssi is at or above MaxRSSI and rssi - MinRSSI
\* over the range in between, so it never decreases as rssi grows; it is
\* computed from the rssi the tick leaves, which it does not change.
C26_PercentClamped ==
    last.kind = "tick" =>
        /\ Len(last.percent) = 1
        /\ last.percent[1] >= 0 /\ last.percent[1] <= MaxRSSI - MinRSSI
        /\ rssi <= MinRSSI => last.percent[1] = 0
        /\ rssi >= MaxRSSI => last.percent[1] = MaxRSSI - MinRSSI
        /\ (rssi > MinRSSI /\ rssi < MaxRSSI) => last.percent[1] = rssi - MinRSSI

\* A tick left a signal above MaxRSSI and the percent is 1.
C26_Witness ==
    /\ last.kind = "tick" /\ rssi > MaxRSSI
    /\ last.percent = <<MaxRSSI - MinRSSI>>

\* C27: the quit key ends the session from any state. The step of a quit key
\* kills the detector process and quits the program, with no channel command
\* and whatever lockedTarget and channelLocked are; once the program has
\* quit no event is handled: nothing changes any more.
C27_QuitEndsSession ==
    [][/\ (~quit /\ last'.kind = "quit") =>
              /\ quit' /\ kismet' = "killed" /\ calls' = <<>>
              /\ UNCHANGED <<targets, lockedTarget, channelLocked, channel, rssi>>
       /\ quit => UNCHANGED vars]_vars

\* The quit key was pressed in LOCKED.
C27_Witness ==
    /\ last.kind = "quit" /\ last.from # 0 /\ last.fromLocked
    /\ quit /\ kismet = "killed"

\* C28: a tick whose resolve call returned the held target's record takes
\* the sample. After such a tick, for a record r of the target's address:
\* rssi is the signal of r, channel is the channel of r, exactly that signal
\* was appended to rssiData, and lastReceived is the time of the tick (time
\* has passed since only while the lock call of the tick was running),
\* whether the lock call succeeded or failed.
C28_SampleTaken ==
    [][(TickStep /\ last'.resolve = "ok") =>
           /\ lockedTarget' # 0
           /\ \E r \in ResolveRecords :
                  /\ r.mac = targets'[lockedTarget'].Value
                  /\ rssi' = (IF Has(r, "rssi") THEN r.rssi ELSE MinRSSI)
                  /\ last'.sample = <<rssi'>>
                  /\ channel' = Str(r, "channel")
           /\ sinceReceived' # 0 => LockCalls' # {}]_vars

\* C29: while channelLocked is true the radio is pinned to channel, the
\* channel of the held target's latest sample; a later sample on another
\* channel re-pins the radio.
C29_PinnedToCurrentChannel ==
    channelLocked => radio = Pinned(channel)

\* C30: in SEARCHING the radio hops. Whenever no target is held the data
\* source is in hopping mode: the pin of every accepted lock command has been
\* undone by an accepted hop command by the time the target is released,
\* whatever the hop calls returned.
C30_SearchingHops ==
    (lockedTarget = 0 /\ ~quit) => radio = Hopping

\* C31: the held target is never an ignored one. In every state, if
\* lockedTarget is set, the Ignored flag of that target is false.
C31_LockedNotIgnored ==
    lockedTarget # 0 => ~targets[lockedTarget].Ignored

\* A target is held while another entry of the registry is ignored: the
\* ignore key released the first one and discovery took the next.
C31_Witness ==
    /\ lockedTarget # 0 /\ ~targets[lockedTarget].Ignored
    /\ \E i \in 1..Len(targets) : i # lockedTarget /\ targets[i].Ignored

\* C32: SEARCHING carries nothing of a previous target. In every state with
\* lockedTarget nil, channelLocked is false, channel is empty and
\* lockedDeviceInfo is nil.
C32_SearchingIsClean ==
    lockedTarget = 0 =>
        /\ ~channelLocked
        /\ channel = ""
        /\ lockedDeviceInfo = NoDeviceInfo

\* The ignore key has released a target that was locked and sampled: nothing
\* of it is left.
C32_Witness ==
    /\ last.kind = "ignore" /\ last.from # 0 /\ last.fromLocked
    /\ lockedTarget = 0 /\ ~channelLocked /\ channel = ""
    /\ lockedDeviceInfo = NoDeviceInfo

\* C33: lockChannel is never called with an empty channel. Every lock
\* command an event sent names a channel, also when the record of the held
\* target came without a channel field.
C33_LockNamesChannel ==
    \A k \in LockCalls : calls[k].channel # ""

\* C34: an ignored address is not acquired again through another entry. When
\* the ignore key has just released a target whose value is address A, the
\* tick that follows does not set lockedTarget to a target whose value is A
\* (a duplicate entry for A, or a name entry whose name device A carries).
C34_IgnoredAddressNotReacquired ==
    [][(last.kind = "ignore" /\ last.from # 0 /\ TickStep /\ lockedTarget' # 0)
          => targets'[lockedTarget'].Value # targets[last.from].Value]_vars

\* The entries of the registry whose Ignored flag a step changes.
IgnoredChanged == { i \in 1..Len(targets) : targets'[i].Ignored # targets[i].Ignored }

\* The one-way rewrite of a name entry that has not been resolved yet: the
\* name moves to OriginalValue and the address of the device becomes Value.
NameToAddress(t, u) ==
    /\ t.TType = SSID /\ t.OriginalValue = "" /\ t.Value \in SSIDs
    /\ u = [t EXCEPT !.OriginalValue = t.Value, !.Value = u.Value]
    /\ u.Value \in MACs

\* What a tick may do to the registry.
TickKeepsRegistry ==
    /\ Len(targets') = Len(targets)
    /\ IgnoredChanged = {}
    /\ \A i \in 1..Len(targets) :
          targets'[i] # targets[i] =>
              /\ last'.discovered /\ lockedTarget' = i
              /\ NameToAddress(targets[i], targets'[i])

\* What enter and the ignore key may do to the registry.
KeyKeepsRegistry ==
    /\ Len(targets') = Len(targets)
    /\ \A i \in 1..Len(targets) : targets'[i] = [targets[i] EXCEPT !.Ignored = targets'[i].Ignored]
    /\ IgnoredChanged \subseteq ({last'.sel, lockedTarget} \ {0})

\* C35: the registry's frame. A tick changes no Ignored flag, no membership
\* and no order, and rewrites at most the entry it has just matched, from its
\* name to the address of the device; enter and the ignore key change the
\* Ignored flag of at most the selected entry and the entry that was locked.
C35_RegistryFrame ==
    [][/\ TickStep => TickKeepsRegistry
       /\ (EnterStep \/ IgnoreStep) => KeyKeepsRegistry]_vars

\* C36: rssiData receives an entry only on a tick whose resolve call returned
\* a device record. An event that appended a value is a tick with a record
\* (not a tick in SEARCHING, not one with NotFound or a failed call, not
\* enter, not the ignore key), and when the decay section ran on that tick the
\* appended value is the signal before the decay.
C36_HistoryOnlyFromRecords ==
    /\ last.sample # <<>> => (last.kind = "tick" /\ last.resolve = "ok")
    /\ (last.sample # <<>> /\ last.decayed) => last.sample[1] > rssi

\* A tick took a sample, appended it, and then (the lock command having been
\* slow) decayed the signal: the entry is the sample, not the decayed value.
C36_Witness ==
    /\ last.kind = "tick" /\ last.resolve = "ok" /\ last.decayed
    /\ Len(last.sample) = 1 /\ last.sample[1] = rssi + decayRate

\* C37: exactly one tick is outstanding until the program quits. In every
\* state before quit, one tick command returned by Init or by a tick handler
\* has not been delivered yet, whatever keys, resizes and animation frames
\* came in between.
C37_OneTickOutstanding ==
    ~quit => ticks = 1

\* A tick was handled after a key, a resize or a frame, and scheduled its
\* successor.
C37_Witness ==
    /\ ~quit /\ last.kind = "tick" /\ last.from # 0 /\ ticks = 1
    /\ lockedDeviceInfo.held /\ focusOnClients

\* The value a DeviceInfo field must carry for a record field: the record's
\* value when it is present with the asserted type, the default when absent.
Carries(j, type, default, field) ==
    /\ j.t = type => field = ValueOf(j)
    /\ j.t = "absent" => field = default

\* C38: the DeviceInfo of a matched record. For each of the seven fields the
\* DeviceInfo carries the record's value when the field is present with the
\* expected type, and when it is absent the default: "Unknown" for
\* manufacturer, broadcast name, encryption and type, MinRSSI for the signal,
\* "" for the channel and an empty map for the associated clients.
C38_DeviceInfoDefaults ==
    fetched.done =>
        LET rec == fetched.record
            info == fetched.info
        IN /\ Carries(rec.RSSI, "number", MinRSSI, info.RSSI)
           /\ Carries(rec.channel, "string", "", info.Channel)
           /\ Carries(rec.Make, "string", "Unknown", info.Manufacturer)
           /\ Carries(rec.SSID, "string", "Unknown", info.SSID)
           /\ Carries(rec.Crypt, "string", "Unknown", info.Crypt)
           /\ Carries(rec.Type, "string", "Unknown", info.Type)
           /\ rec.AssociatedClients.t = "absent" => info.AssociatedClients = <<>>
           /\ rec.AssociatedClients.t = "object" =>
                 /\ DOMAIN info.AssociatedClients = DOMAIN rec.AssociatedClients.o
                 /\ \A c \in DOMAIN info.AssociatedClients :
                       info.AssociatedClients[c] = Sprintf(rec.AssociatedClients.o[c])

\* A record with a signal and a channel, without manufacturer and clients:
\* the DeviceInfo has the two values and the two defaults.
C38_Witness ==
    /\ fetched.done
    /\ fetched.record.RSSI = JNumber(-40) /\ fetched.info.RSSI = -40
    /\ fetched.record.channel = JString("6") /\ fetched.info.Channel = "6"
    /\ fetched.record.Make = Absent /\ fetched.info.Manufacturer = "Unknown"
    /\ fetched.record.AssociatedClients = Absent /\ fetched.info.AssociatedClients = <<>>

\* C39: the scroll offset of the client list stays within the list. In every
\* state, 0 <= clientScrollOffset <= max(0, N - 8) with N the number of
\* associated clients of the held device info (0 when none is held), and
\* clientScrollOffset = 0 when no target is locked.
C39_ScrollWithinList ==
    /\ clientScrollOffset >= 0
    /\ clientScrollOffset <= Max(0, lockedDeviceInfo.clients - maxVisibleClients)
    /\ lockedTarget = 0 => clientScrollOffset = 0

====
